---- MODULE Spec2Model ----
(***************************************************************************)
(* Stereo frame loop and particle minigame of the Rift demo application.   *)
(*                                                                         *)
(* Units.  Positions and velocities are integers in hundredths of a scene  *)
(* unit (the magnitude of every particle velocity in the source is 0.01).  *)
(* Analog trigger values are integers in hundredths (50 is 0.5).  The      *)
(* clock counts ticks of 1/CLOCKS_PER_SEC seconds.                         *)
(***************************************************************************)
EXTENDS Integers, Sequences, FiniteSets, TLC

\* ------------------------------------------------------------------ bounds
\* Frames the run loop may start before the model stops counting.
MaxFrames == 2
\* Calls of ColorCubeScene::render explored by the scene specification.
MaxRenders == 3
\* Largest per-eye texture width / height the runtime recommends.
MaxEyeDim == 2
\* Largest swap-chain length the runtime reports.
MaxChainLength == 2

\* --------------------------------------------------------------- constants
LEFT == 0
RIGHT == 1
ovrEye_Count == 2
Eyes == LEFT .. (ovrEye_Count - 1)

\* ------------------------------------------------------------ vector maths
Add(a, b) == << a[1] + b[1], a[2] + b[2], a[3] + b[3] >>
Sub(a, b) == << a[1] - b[1], a[2] - b[2], a[3] - b[3] >>
Neg(a) == << -a[1], -a[2], -a[3] >>
Cross(a, b) ==
    << a[2] * b[3] - a[3] * b[2], a[3] * b[1] - a[1] * b[3], a[1] * b[2] - a[2] * b[1] >>
LenSq(a) == a[1] * a[1] + a[2] * a[2] + a[3] * a[3]

\* Orientations are yaws by k quarter turns; Rot applies one to a vector.
Rot(k, v) ==
    CASE k = 0 -> v
      [] k = 1 -> << v[3], v[2], -v[1] >>
      [] k = 2 -> << -v[1], v[2], -v[3] >>
      [] OTHER -> << -v[3], v[2], v[1] >>

\* ovr::toGlm(ovrPosef): translation * orientation, kept as the pair.
toGlm(op) == [rot |-> op.Orientation, tr |-> op.Position]

\* glm::inverse of a rigid transform x |-> R x + t is x |-> R^-1 x - R^-1 t.
inverse(m) ==
    LET back == (4 - m.rot) % 4
    IN  [rot |-> back, tr |-> Neg(Rot(back, m.tr))]

\* --------------------------------------------------------- runtime inputs
\* Poses ovr_GetEyePoses may predict for an eye.
EyePoseSet ==
    { [Orientation |-> 0, Position |-> << -3, 170, 0 >>],
      [Orientation |-> 1, Position |-> << 10, 160, 3 >>] }
ZeroPose == [Orientation |-> 0, Position |-> << 0, 0, 0 >>]

\* ------------------------------------------------------- RiftApp::RiftApp
\* The lambda with every viewport placed at the origin.
LayoutEye_AtOrigin(acc, eye, eyeSize) ==
    [Viewport |-> [acc.Viewport EXCEPT ![eye] = [Pos |-> << 0, 0 >>, Size |-> eyeSize]],
     size |-> << acc.size[1] + eyeSize[1],
                 IF acc.size[2] > eyeSize[2] THEN acc.size[2] ELSE eyeSize[2] >>]

\* One pass of the constructor's per-eye lambda: the eye's viewport is placed
\* at the current width of the render target, which then grows by the eye.
LayoutEye(acc, eye, eyeSize) ==
    [Viewport |-> [acc.Viewport EXCEPT ![eye] =
                      [Pos |-> << acc.size[1], 0 >>, Size |-> eyeSize]],
     size |-> << acc.size[1] + eyeSize[1],
                 IF acc.size[2] > eyeSize[2] THEN acc.size[2] ELSE eyeSize[2] >>]

\* ovr::for_each_eye over the lambda, from ovrEye_Left while eye < ovrEye_Count.
RECURSIVE LayoutFrom(_, _, _)
LayoutFrom(acc, eye, sizes) ==
    IF eye < ovrEye_Count
    THEN LayoutFrom(LayoutEye(acc, eye, sizes[eye]), eye + 1, sizes)
    ELSE acc

Layout(sizes) ==
    LayoutFrom([Viewport |-> [e \in Eyes |-> [Pos |-> << 0, 0 >>, Size |-> << 0, 0 >>]],
                size |-> << 0, 0 >>], LEFT, sizes)

\* ------------------------------------------------------------- scene data
\* Chimney mouth (column 3 of ColorCubeScene::chimney), where particles spawn.
ChimneyPos == << 0, -100, -1500 >>
\* Particles the constructor and the reset create.
StartParticles == 5
\* Extra particles added on loss.
BurstSize == 100
\* Loss threshold on co2Count.
LossLimit == 10
\* Point-to-line distance at or below which a laser hits, in hundredths.
HitRadius == 30
\* Length of a laser beam in whole units (the z scale of its transform).
LaserLength == 20
\* Analog trigger level above which a trigger counts as pressed, in hundredths.
TriggerLevel == 50
\* Haptic cooldown in milliseconds.
VibCooldownMs == 100
\* Clock ticks per second; the model's clock ticks every 100 ms.
CLOCKS_PER_SEC == 10
\* Walls of the bounding region, in hundredths.
WallX == 1000
WallY == 1000
WallZNear == -500
WallZFar == -2500

\* Velocities glm::normalize(...) / 100 gives the constructor's five particles
\* (the y component is never negative), taken on the lattice.
InitVelocities == { << << 1, 0, 0 >>, << -1, 0, 0 >>, << 0, 1, 0 >>, << 0, 0, 1 >>, << 0, 0, -1 >> >> }
\* Velocities rand() gives a particle spawned later.
SpawnVelocities == { << 1, 0, 0 >>, << -1, 0, 0 >> }

\* Hand poses the tracker may report: a beam along x through the chimney
\* mouth, and a beam along z passing 0.30 beside it.
BeamThrough == [Orientation |-> 1, Position |-> << 200, -100, -1500 >>]
BeamBeside == [Orientation |-> 0, Position |-> << 30, -100, 0 >>]
HandPoseSet == { BeamThrough, BeamBeside }
\* Analog index-trigger values the runtime may report, in hundredths.
TriggerVals == { 50, 51 }
\* Button masks the runtime may report.
ButtonVals == { 0, 1 }
\* Ticks the clock may advance between two calls of update.
ClockSteps == { 0, 1, 10 }
\* Values the indeterminate vibTimer may hold before the first hit.
UninitClock == { -1000, 1000 }

InputStates ==
    [IndexTrigger : [{LEFT, RIGHT} -> TriggerVals], Buttons : ButtonVals]


NewParticle(v) == [model |-> "co2", pos |-> ChimneyPos, velocity |-> v]

\* --------------------------------------------------- ColorCubeScene::render
\* translate(hand position) * rotation * scale(0.01, 0.01, -20): the origin
\* column in hundredths and the z column in whole units.
LaserTransform(pose) ==
    [tr |-> pose.Position, zaxis |-> Rot(pose.Orientation, << 0, 0, -LaserLength >>)]

\* --------------------------------------------------- ColorCubeScene::update
\* The haptic feedback check without the cooldown.
HapticStop_NoCooldown(pressed, clock, vt) == ~pressed[LEFT] \/ ~pressed[RIGHT]

\* The haptic feedback check at the head of update.
HapticStop(pressed, clock, vt) ==
    \/ ~pressed[LEFT]
    \/ ~pressed[RIGHT]
    \/ 1000 * (clock - vt) > VibCooldownMs * CLOCKS_PER_SEC

\* The wall checks with a translation on a bound counted as outside.
Bounce_OnBoundOutside(pos, v) ==
    << IF pos[1] <= -WallX \/ pos[1] >= WallX THEN -v[1] ELSE v[1],
       IF pos[2] <= -WallY \/ pos[2] >= WallY THEN -v[2] ELSE v[2],
       IF pos[3] <= WallZFar \/ pos[3] >= WallZNear THEN -v[3] ELSE v[3] >>

\* The three wall checks on the translation after the move.
Bounce(pos, v) ==
    << IF pos[1] < -WallX \/ pos[1] > WallX THEN -v[1] ELSE v[1],
       IF pos[2] < -WallY \/ pos[2] > WallY THEN -v[2] ELSE v[2],
       IF pos[3] < WallZFar \/ pos[3] > WallZNear THEN -v[3] ELSE v[3] >>

\* The move with the walls checked on the translation before it.
Advance_CheckFirst(p) ==
    [p EXCEPT !.pos = Add(p.pos, p.velocity), !.velocity = Bounce(p.pos, p.velocity)]

\* One pass of update's loop over a particle: the move, then the wall checks.
Advance(p) ==
    LET moved == Add(p.pos, p.velocity)
    IN  [p EXCEPT !.pos = moved, !.velocity = Bounce(moved, p.velocity)]

\* Point-to-line distance test of one laser against a particle centre:
\* |cross(endPt - start, start - centre)| / |endPt - start| <= 0.3.  The end
\* point is transform * (0, 0, -1, 1), so endPt - start is minus the z column;
\* the quotient does not depend on the unit the z column is kept in.
RayHit(laser, centre) ==
    LET start == laser.transform.tr
        along == Neg(laser.transform.zaxis)
        c == Cross(along, Sub(start, centre))
    IN  LenSq(c) <= HitRadius * HitRadius * LenSq(along)

LaserModel(trigger) == IF trigger > TriggerLevel THEN "redLaser" ELSE "greenLaser"

\* The spawn test asking for more than a second.
SpawnDue_Late(won, clock, t) == ~won /\ clock - t > CLOCKS_PER_SEC

SpawnDue(won, clock, t) == ~won /\ (clock - t) \div CLOCKS_PER_SEC >= 1

\* The loss test without the check for Lost.
LossDue_Repeated(count, lost) == count > LossLimit

LossDue(count, lost) == count > LossLimit /\ ~lost

\* The win test without the check for Lost.
WinDue_WhileLost(count, lost) == count = 0

\* The win test off by one.
WinDue_BelowZero(count, lost) == count < 0 /\ ~lost

WinDue(count, lost) == count = 0 /\ ~lost

\* The reset offered only after a win.
ResetDue_WonOnly(won, lost, buttons) == won /\ buttons # 0

ResetDue(won, lost, buttons) == (won \/ lost) /\ buttons # 0

\* The i-th particle of the loss burst: a lattice position inside the region
\* (fmod(rand(), 20) - 10, fmod(rand(), 20) - 10, fmod(rand(), 20) - 25) and a
\* velocity, both picked by the draw k.
BurstParticle(k, i) ==
    [model |-> "co2",
     pos |-> << 100 * (((k + 7 * i) % 20) - 10), 100 * (((k + 3 * i) % 20) - 10),
                100 * (((k + i) % 20) - 25) >>,
     velocity |-> IF (k + i) % 2 = 0 THEN << -1, 0, 0 >> ELSE << 0, 0, -1 >>]

FreshParticles(vs) == [i \in 1 .. StartParticles |-> NewParticle(vs[i])]

\* ------------------------------------------------------------------ state
VARIABLES
    pc,                   \* position of the main thread in GlfwApp::run / RiftApp::draw
    frame,                \* GlfwApp::frame
    shouldClose,          \* the window's close flag
    renderTargetSize,     \* RiftApp::_renderTargetSize
    sceneLayer,           \* RiftApp::_sceneLayer (Viewport, RenderPose)
    eyePoses,             \* draw's local eyePoses
    eye,                  \* the eye for_each_eye in draw is at
    chainLength,          \* length of the texture swap chain
    chainIndex,           \* the runtime's current swap-chain slot
    curIndex,             \* draw's local curIndex, -1 while not acquired
    fboColor,             \* colour attachment of _fbo: a slot, or -1 for none
    glViewport,           \* the OpenGL viewport rectangle
    submitted,            \* result of the last ovr_SubmitFrame
    log,                  \* steps the current frame has executed, in order
    rendered,             \* per-eye calls of renderScene in the current frame
    particles,            \* ColorCubeScene::particles
    leftLaser,            \* ColorCubeScene::leftLaser
    rightLaser,           \* ColorCubeScene::rightLaser
    co2Count,             \* ColorCubeScene::co2Count
    win,                  \* ColorCubeScene::win
    lose,                 \* ColorCubeScene::lose
    timer,                \* ColorCubeScene::timer
    vibTimer,             \* ColorCubeScene::vibTimer
    handPoses,            \* ColorCubeScene::handPoses
    inputstate,           \* ColorCubeScene::inputstate
    fingerTriggerPressed, \* ColorCubeScene::fingerTriggerPressed
    now,                  \* the value std::clock() last returned
    vibration,            \* amplitude last requested of each controller
    clearColor,           \* the OpenGL clear colour
    converted,            \* indices of the particles the last update converted
    did,                  \* what the last update decided (see UpdateFlags); stop, buzz:
                          \* it sent the zero / the nonzero vibration; hits: some update
                          \* so far has hit; active: it ran after a hit with both
                          \* triggers held and the cooldown not over; sampled: the
                          \* input state was read and the latches assigned
    renders,              \* calls of ColorCubeScene::render so far
    samples,              \* calls of getControllerData in the current frame
    updates,              \* calls of ColorCubeScene::update in the current frame
    console,              \* lines written to stdout / stderr
    exitCode,             \* WinMain's result
    window,               \* GlfwApp::window is not null
    session,              \* RiftManagerApp::_session has been created
    calls,                \* runtime calls made so far that take the session
    apiFailed,            \* startup calls that have reported failure
    teardown              \* calls made so far that end the session or the runtime

pipeVars == << pc, frame, shouldClose, renderTargetSize, sceneLayer, eyePoses, eye,
               chainLength, chainIndex, curIndex, fboColor, glViewport, submitted,
               log, rendered >>
sceneVars == << particles, leftLaser, rightLaser, co2Count, win, lose, timer, vibTimer,
                handPoses, inputstate, fingerTriggerPressed, now, vibration, clearColor,
                converted, did, renders, samples, updates >>
mainVars == << console, exitCode, window, session, calls, apiFailed, teardown >>
vars == << pipeVars, sceneVars, mainVars >>

\* The record of an update that converted, spawned and decided nothing.
NothingDone(count) ==
    [red |-> FALSE, spawn |-> FALSE, count |-> count, loss |-> FALSE, won |-> FALSE,
     lose |-> FALSE, win |-> FALSE, reset |-> FALSE, stop |-> FALSE, hits |-> FALSE,
     buzz |-> FALSE, active |-> FALSE, sampled |-> FALSE]

\* Calls taking the session made by the constructors of RiftManagerApp and
\* RiftApp, and by RiftApp::initGl and ExampleApp::initGl when all succeed.
CtorCalls == { "ovr_GetHmdDesc", "ovr_GetRenderDesc", "ovr_GetFovTextureSize" }
InitGlCalls ==
    { "ovr_CreateTextureSwapChainGL", "ovr_GetTextureSwapChainLength",
      "ovr_GetTextureSwapChainBufferGL", "ovr_CreateMirrorTextureGL",
      "ovr_RecenterTrackingOrigin" }

\* ---------------------------------------------------------- initial state
\* RiftApp::RiftApp lays out the eyes from the sizes the runtime recommends;
\* RiftApp::initGl has created the swap chain.
InitPipeline ==
    /\ pc = "loop"
    /\ frame = 0
    /\ shouldClose = FALSE
    /\ \E sizes \in [Eyes -> (1 .. MaxEyeDim) \X (1 .. MaxEyeDim)] :
          /\ renderTargetSize = Layout(sizes).size
          /\ sceneLayer = [Viewport |-> Layout(sizes).Viewport,
                           RenderPose |-> [e \in Eyes |-> ZeroPose]]
    /\ eyePoses = [e \in Eyes |-> ZeroPose]
    /\ eye = LEFT
    /\ chainLength \in 1 .. MaxChainLength
    /\ chainIndex = 0
    /\ curIndex = -1
    /\ fboColor = -1
    /\ glViewport = [Pos |-> << 0, 0 >>, Size |-> << 0, 0 >>]
    /\ submitted = TRUE
    /\ log = << >>
    /\ rendered = << >>
    /\ console = << >>
    /\ exitCode = -1
    /\ window = TRUE
    /\ session = TRUE
    /\ calls = CtorCalls \cup InitGlCalls
    /\ apiFailed = {}
    /\ teardown = << >>

\* The members of ColorCubeScene other than the particle set, after construction.
InitSceneRest ==
    /\ leftLaser = [model |-> "greenLaser", transform |-> [tr |-> << 0, 0, 0 >>, zaxis |-> << 0, 0, 1 >>]]
    /\ rightLaser = [model |-> "greenLaser", transform |-> [tr |-> << 0, 0, 0 >>, zaxis |-> << 0, 0, 1 >>]]
    /\ co2Count = StartParticles
    /\ win = FALSE
    /\ lose = FALSE
    /\ now = 0
    /\ timer = 0
    /\ vibTimer \in UninitClock
    /\ handPoses = [h \in {LEFT, RIGHT} |-> ZeroPose]
    /\ inputstate \in InputStates
    /\ fingerTriggerPressed = [h \in {LEFT, RIGHT} |-> FALSE]
    /\ vibration = [h \in {LEFT, RIGHT} |-> 0]
    /\ clearColor = "dark"
    /\ converted = {}
    /\ did = NothingDone(StartParticles)
    /\ renders = 0
    /\ samples = 0
    /\ updates = 0

\* ColorCubeScene::ColorCubeScene; inputstate and vibTimer are not initialised.
InitScene ==
    /\ \E vs \in InitVelocities : particles = FreshParticles(vs)
    /\ InitSceneRest

Init == InitPipeline /\ InitScene

\* ------------------------------------- ColorCubeScene::render and update
Hands == {LEFT, RIGHT}
\* Draws that pick the positions and velocities of a loss burst.
BurstDraws == { 0, 1 }

\* getControllerData: the latches follow the analog triggers when the input
\* state could be read and keep their values when it could not.
Latches(ok, state) ==
    IF ok
    THEN [h \in Hands |-> state.IndexTrigger[h] > TriggerLevel]
    ELSE fingerTriggerPressed

\* The conversion test without the check that the particle is still CO2.
Converts_AnyModel(p, ll, rl) ==
    /\ ll.model = "redLaser"
    /\ rl.model = "redLaser"
    /\ RayHit(ll, p.pos)
    /\ RayHit(rl, p.pos)

\* The conversion test with one hit enough.
Converts_EitherRay(p, ll, rl) ==
    /\ p.model = "co2"
    /\ ll.model = "redLaser"
    /\ rl.model = "redLaser"
    /\ (RayHit(ll, p.pos) \/ RayHit(rl, p.pos))

\* The conversion test on an already advanced particle.
Converts(p, ll, rl) ==
    /\ p.model = "co2"
    /\ ll.model = "redLaser"
    /\ rl.model = "redLaser"
    /\ RayHit(ll, p.pos)
    /\ RayHit(rl, p.pos)

\* Indices of the particles for which the loop of update enters its
\* conversion branch (model set to O2, vibration on, co2Count--).
LoopConverted(ll, rl) ==
    { i \in 1 .. Len(particles) : Converts(Advance(particles[i]), ll, rl) }

\* The particles after the loop: every one advanced, those of conv now O2.
LoopParticles(conv) ==
    [i \in 1 .. Len(particles) |->
        IF i \in conv
        THEN [Advance(particles[i]) EXCEPT !.model = "o2"]
        ELSE Advance(particles[i])]

\* The decisions update takes after its particle loop, in source order: the
\* timed spawn, the loss case, the win case, the reset.  count is co2Count
\* after the loop, clock the value of std::clock().
UpdateFlags(count, clock, buttons) ==
    LET spawn == SpawnDue(win, clock, timer)
        count2 == IF spawn THEN count + 1 ELSE count
        loss == LossDue(count2, lose)
        won == WinDue(count2, lose \/ loss)
    IN  [red |-> FALSE, spawn |-> spawn, count |-> count2, loss |-> loss, won |-> won,
         lose |-> (lose \/ loss), win |-> (win \/ won),
         reset |-> ResetDue(win \/ won, lose \/ loss, buttons),
         stop |-> FALSE, hits |-> FALSE, buzz |-> FALSE, active |-> FALSE,
         sampled |-> FALSE]

\* One call of render(projection, modelview, session, eyepos): controller
\* sampling, the laser transforms, the draw calls, then update().  The runtime
\* supplies the hand poses (from HandSet), the outcome of ovr_GetInputState
\* (from OkSet) and the state it writes (from StateSet), and the clock advance
\* (from DtSet).
SceneRender(HandSet, OkSet, StateSet, DtSet) ==
    \E hands \in [Hands -> HandSet] :
    \E ll \in { [leftLaser EXCEPT !.transform = LaserTransform(hands[LEFT])] },
       rl \in { [rightLaser EXCEPT !.transform = LaserTransform(hands[RIGHT])] } :
    \E conv \in { LoopConverted(ll, rl) } :
    \E hit \in { LoopParticles(conv) } :
    \E ok \in OkSet, dt \in DtSet :
    \E st \in (IF ok THEN StateSet ELSE {inputstate}) :
    \E f \in { UpdateFlags(co2Count - Cardinality(conv), now + dt, st.Buttons) } :
    \E v \in (IF f.spawn /\ ~f.reset THEN SpawnVelocities ELSE { << 0, 0, 0 >> }),
       k \in (IF f.loss /\ ~f.reset THEN BurstDraws ELSE { 0 }),
       vs \in (IF f.reset THEN InitVelocities ELSE { << >> }) :
    LET ftp == Latches(ok, st)
        clock == now + dt
        parts2 == IF f.spawn THEN Append(hit, NewParticle(v)) ELSE hit
        parts3 == IF f.loss
                  THEN parts2 \o [i \in 1 .. BurstSize |-> BurstParticle(k, i)]
                  ELSE parts2
    IN  /\ handPoses' = hands
        /\ inputstate' = st
        /\ fingerTriggerPressed' = ftp
        /\ now' = clock
        /\ vibration' = IF conv # {} THEN [h \in Hands |-> 1]
                        ELSE IF HapticStop(ftp, clock, vibTimer)
                             THEN [h \in Hands |-> 0] ELSE vibration
        /\ vibTimer' = IF conv # {} THEN clock ELSE vibTimer
        /\ converted' = conv
        /\ did' = [f EXCEPT !.red = (ll.model = "redLaser" /\ rl.model = "redLaser"),
                            !.stop = HapticStop(ftp, clock, vibTimer),
                            !.hits = (did.hits \/ conv # {}),
                            !.buzz = (conv # {}),
                            !.sampled = ok,
                            !.active = (did.hits /\ ~HapticStop(ftp, clock, vibTimer))]
        /\ leftLaser' = [ll EXCEPT !.model = LaserModel(st.IndexTrigger[LEFT])]
        /\ rightLaser' = [rl EXCEPT !.model = LaserModel(st.IndexTrigger[RIGHT])]
        /\ timer' = IF f.spawn THEN clock ELSE timer
        /\ particles' = IF f.reset THEN FreshParticles(vs) ELSE parts3
        /\ co2Count' = IF f.reset THEN StartParticles ELSE f.count
        /\ win' = (f.win /\ ~f.reset)
        /\ lose' = (f.lose /\ ~f.reset)
        /\ clearColor' = IF f.reset THEN "dark" ELSE IF f.won THEN "win" ELSE clearColor
        /\ renders' = renders + 1
        /\ samples' = samples + 1
        /\ updates' = updates + 1

\* The render callback on its own: the scene as the frame loop drives it.
SceneTick ==
    /\ renders < MaxRenders
    /\ SceneRender(HandPoseSet, BOOLEAN, InputStates, ClockSteps)
    /\ UNCHANGED pipeVars
    /\ UNCHANGED mainVars

NextScene == SceneTick

\* The scene under a fixed stereo layout.
InitSceneOnly ==
    /\ InitPipeline
    /\ renderTargetSize = << 2, 1 >>
    /\ chainLength = 1
    /\ InitScene

SpecScene == InitSceneOnly /\ [][NextScene]_vars

\* ------------------------------------------- GlfwApp::run, RiftApp::draw
\* Keys glfwPollEvents may deliver in one tick.
KeyEvents == { "none", "escape", "r" }
\* The inputs the runtime hands the scene while the frame loop is explored.
FrameHandSet == { BeamThrough }
FrameStates == { s \in InputStates : s.Buttons = 0 /\ \A h \in {LEFT, RIGHT} : s.IndexTrigger[h] = 50 }
FrameClockSteps == { 0 }

\* The end of the process with the session destroyed whether created or not.
Teardown_DestroyAlways(created) == << "ovr_Destroy", "ovr_Shutdown" >>

\* The calls that end the process: ~RiftManagerApp destroys the session when
\* the temporary ExampleApp goes away, which it does only if the constructor
\* of RiftManagerApp completed; then WinMain shuts the runtime down.
Teardown(created) ==
    (IF created THEN << "ovr_Destroy" >> ELSE << >>) \o << "ovr_Shutdown" >>

\* draw with the mirror blit left out.
PcAfter_NoMirror(step) ==
    CASE step = "predict" -> "acquire"
      [] step = "acquire" -> "bind"
      [] step = "bind" -> "eye"
      [] step = "eye" -> "commit"
      [] step = "commit" -> "submit"
      [] step = "submit" -> "swap"
      [] OTHER -> "loop"

\* The statement order of draw followed by finishFrame: where the thread goes
\* after each step.
PcAfter(step) ==
    CASE step = "predict" -> "acquire"
      [] step = "acquire" -> "bind"
      [] step = "bind" -> "eye"
      [] step = "eye" -> "commit"
      [] step = "commit" -> "submit"
      [] step = "submit" -> "mirror"
      [] step = "mirror" -> "swap"
      [] OTHER -> "loop"

\* The layer given the left eye's pose for both eyes.
LayerPose_Left(poses, e) == poses[LEFT]

\* The pose draw records in the layer for an eye.
LayerPose(poses, e) == poses[e]

\* The head pose draw hands renderScene for an eye.
HeadPose(poses, e) == toGlm(poses[e])

\* ExampleApp::renderScene: the scene gets the inverse of the head pose.
ViewMatrix(headPose) == inverse(headPose)

\* Top of the while loop: the close test, ++frame, glfwPollEvents, update().
BeginFrame ==
    /\ pc = "loop"
    /\ ~shouldClose
    /\ frame < MaxFrames
    /\ frame' = frame + 1
    /\ \E key \in KeyEvents : shouldClose' = (key = "escape")
    /\ pc' = "predict"
    /\ log' = << >>
    /\ rendered' = << >>
    /\ samples' = 0
    /\ updates' = 0
    /\ UNCHANGED << renderTargetSize, sceneLayer, eyePoses, eye, chainLength, chainIndex,
                    curIndex, fboColor, glViewport, submitted >>
    /\ UNCHANGED << particles, leftLaser, rightLaser, co2Count, win, lose, timer, vibTimer,
                    handPoses, inputstate, fingerTriggerPressed, now, vibration, clearColor,
                    converted, did, renders >>
    /\ UNCHANGED mainVars

\* ovr_GetEyePoses.
PredictPose ==
    /\ pc = "predict"
    /\ eyePoses' \in [Eyes -> EyePoseSet]
    /\ log' = Append(log, "PredictPose")
    /\ pc' = PcAfter("predict")
    /\ UNCHANGED << frame, shouldClose, renderTargetSize, sceneLayer, eye, chainLength,
                    chainIndex, curIndex, fboColor, glViewport, submitted, rendered >>
    /\ UNCHANGED sceneVars
    /\ calls' = calls \cup { "ovr_GetEyePoses" }
    /\ UNCHANGED << console, exitCode, window, session, apiFailed, teardown >>

\* ovr_GetTextureSwapChainCurrentIndex.
AcquireSlot ==
    /\ pc = "acquire"
    /\ curIndex' = chainIndex
    /\ log' = Append(log, "AcquireSlot")
    /\ pc' = PcAfter("acquire")
    /\ UNCHANGED << frame, shouldClose, renderTargetSize, sceneLayer, eyePoses, eye,
                    chainLength, chainIndex, fboColor, glViewport, submitted, rendered >>
    /\ UNCHANGED sceneVars
    /\ UNCHANGED mainVars

\* The slot after the acquired one attached instead.
BoundSlot_Next == (curIndex + 1) % (chainLength + 1)

\* The slot draw attaches: the one it acquired.
BoundSlot == curIndex

\* The slot's texture attached to _fbo as colour target, then glClear.
BindTarget ==
    /\ pc = "bind"
    /\ fboColor' = BoundSlot
    /\ eye' = LEFT
    /\ log' = Append(log, "BindTarget")
    /\ pc' = PcAfter("bind")
    /\ UNCHANGED << frame, shouldClose, renderTargetSize, sceneLayer, eyePoses, chainLength,
                    chainIndex, curIndex, glViewport, submitted, rendered >>
    /\ UNCHANGED sceneVars
    /\ UNCHANGED mainVars

\* What the draw calls of render put on screen, before its call of update:
\* each particle's model at its translation, and the model of each laser.
DrawnScene(parts, ll, rl) ==
    [particles |-> [i \in 1 .. Len(parts) |-> [model |-> parts[i].model, pos |-> parts[i].pos]],
     lasers |-> << ll.model, rl.model >>]

\* One pass of draw's per-eye lambda: the viewport, the layer's pose, and
\* renderScene, which runs the scene's render (rendered keeps what it drew).
RenderEye ==
    /\ pc = "eye"
    /\ eye < ovrEye_Count
    /\ glViewport' = sceneLayer.Viewport[eye]
    /\ sceneLayer' = [sceneLayer EXCEPT !.RenderPose[eye] = LayerPose(eyePoses, eye)]
    /\ rendered' = Append(rendered,
                          [eye |-> eye, viewport |-> sceneLayer.Viewport[eye],
                           view |-> ViewMatrix(HeadPose(eyePoses, eye)),
                           target |-> fboColor,
                           scene |-> DrawnScene(particles, leftLaser, rightLaser)])
    /\ SceneRender(FrameHandSet, {TRUE}, FrameStates, FrameClockSteps)
    /\ log' = Append(log, IF eye = LEFT THEN "RenderEyeLeft" ELSE "RenderEyeRight")
    /\ eye' = eye + 1
    /\ pc' = IF eye + 1 < ovrEye_Count THEN "eye" ELSE PcAfter("eye")
    /\ UNCHANGED << frame, shouldClose, renderTargetSize, eyePoses, chainLength, chainIndex,
                    curIndex, fboColor, submitted >>
    /\ UNCHANGED mainVars

\* The colour target detached, then ovr_CommitTextureSwapChain.
Commit ==
    /\ pc = "commit"
    /\ fboColor' = -1
    /\ chainIndex' = (chainIndex + 1) % chainLength
    /\ log' = Append(log, "Commit")
    /\ pc' = PcAfter("commit")
    /\ UNCHANGED << frame, shouldClose, renderTargetSize, sceneLayer, eyePoses, eye,
                    chainLength, curIndex, glViewport, submitted, rendered >>
    /\ UNCHANGED sceneVars
    /\ UNCHANGED mainVars

\* ovr_SubmitFrame; its result is not looked at.
Submit ==
    /\ pc = "submit"
    /\ submitted' \in BOOLEAN
    /\ log' = Append(log, "Submit")
    /\ pc' = PcAfter("submit")
    /\ UNCHANGED << frame, shouldClose, renderTargetSize, sceneLayer, eyePoses, eye,
                    chainLength, chainIndex, curIndex, fboColor, glViewport, rendered >>
    /\ UNCHANGED sceneVars
    /\ UNCHANGED mainVars

\* The mirror texture blitted to the window's back buffer.
MirrorBlit ==
    /\ pc = "mirror"
    /\ log' = Append(log, "MirrorBlit")
    /\ pc' = PcAfter("mirror")
    /\ UNCHANGED << frame, shouldClose, renderTargetSize, sceneLayer, eyePoses, eye,
                    chainLength, chainIndex, curIndex, fboColor, glViewport, submitted,
                    rendered >>
    /\ UNCHANGED sceneVars
    /\ UNCHANGED mainVars

\* GlfwApp::finishFrame: glfwSwapBuffers; draw's locals are gone.
FinishFrame ==
    /\ pc = "swap"
    /\ log' = Append(log, "SwapPresent")
    /\ curIndex' = -1
    /\ eyePoses' = [e \in Eyes |-> ZeroPose]
    /\ pc' = PcAfter("swap")
    /\ UNCHANGED << frame, shouldClose, renderTargetSize, sceneLayer, eye,
                    chainLength, chainIndex, fboColor, glViewport, submitted, rendered >>
    /\ UNCHANGED sceneVars
    /\ UNCHANGED mainVars

\* What WinMain's catch block prints for an exception thrown inside the loop:
\* std::bad_alloc out of update's new Particle() while an eye is rendered, or
\* the description the GLFW error callback throws out of glfwSwapBuffers.
LoopFailure(step) == IF step = "eye" THEN "bad allocation" ELSE "GLFW error"

\* An exception leaves the loop in the middle of a frame: run is unwound, the
\* temporary ExampleApp destroyed, WinMain's catch block prints what(), the
\* runtime is shut down and WinMain returns result, still -1.
LoopThrows ==
    /\ pc \in {"eye", "swap"}
    /\ console' = Append(console, LoopFailure(pc))
    /\ pc' = "failed"
    /\ teardown' = Teardown(session)
    /\ UNCHANGED << frame, shouldClose, renderTargetSize, sceneLayer, eyePoses, eye,
                    chainLength, chainIndex, curIndex, fboColor, glViewport, submitted,
                    log, rendered >>
    /\ UNCHANGED sceneVars
    /\ UNCHANGED << exitCode, window, session, calls, apiFailed >>

\* The loop test fails: shutdownGl, run returns 0, the temporary ExampleApp is
\* destroyed, the runtime shut down, and WinMain returns 0.
Shutdown ==
    /\ pc = "loop"
    /\ shouldClose
    /\ pc' = "done"
    /\ UNCHANGED << frame, shouldClose, renderTargetSize, sceneLayer, eyePoses, eye,
                    chainLength, chainIndex, curIndex, fboColor, glViewport, submitted,
                    log, rendered >>
    /\ UNCHANGED sceneVars
    /\ exitCode' = 0
    /\ teardown' = Teardown(session)
    /\ UNCHANGED << console, window, session, calls, apiFailed >>

\* --------------------------------------------- the scene close to a loss
\* Renders, one second apart and with idle controllers, that precede the
\* state InitLate describes; each of them spawns one particle, and the last
\* brings co2Count to the loss limit.
IdleRenders == LossLimit - StartParticles

RECURSIVE AdvanceTimes(_, _)
AdvanceTimes(p, n) == IF n = 0 THEN p ELSE AdvanceTimes(Advance(p), n - 1)

\* The particle set after IdleRenders idle renders: the constructor's five
\* advanced in every one of them, the particle spawned in render j advanced in
\* the renders after it.
LateParticles(vs) ==
    [i \in 1 .. StartParticles + IdleRenders |->
        IF i <= StartParticles
        THEN AdvanceTimes(NewParticle(vs[i]), IdleRenders)
        ELSE AdvanceTimes(NewParticle(IF i % 2 = 0 THEN << 1, 0, 0 >> ELSE << -1, 0, 0 >>),
                          IdleRenders - (i - StartParticles))]

\* The state the scene is in after IdleRenders renders, CLOCKS_PER_SEC ticks
\* apart, in which the triggers were released, no button was down and no
\* particle was converted: ten CO2 particles, one short of the loss.
InitLate ==
    /\ InitPipeline
    /\ renderTargetSize = << 2, 1 >>
    /\ chainLength = 1
    /\ \E vs \in InitVelocities : particles = LateParticles(vs)
    /\ handPoses = [h \in Hands |-> BeamBeside]
    /\ leftLaser = [model |-> "greenLaser", transform |-> LaserTransform(BeamBeside)]
    /\ rightLaser = [model |-> "greenLaser", transform |-> LaserTransform(BeamBeside)]
    /\ co2Count = StartParticles + IdleRenders
    /\ win = FALSE
    /\ lose = FALSE
    /\ now = IdleRenders * CLOCKS_PER_SEC
    /\ timer = IdleRenders * CLOCKS_PER_SEC
    /\ vibTimer \in UninitClock
    /\ inputstate = [IndexTrigger |-> [h \in Hands |-> 0], Buttons |-> 0]
    /\ fingerTriggerPressed = [h \in Hands |-> FALSE]
    /\ vibration = [h \in Hands |-> 0]
    /\ clearColor = "dark"
    /\ converted = {}
    /\ did = NothingDone(StartParticles + IdleRenders)
    /\ renders = 0
    /\ samples = 0
    /\ updates = 0

\* Input states with both triggers at the same level.
PairedStates == { s \in InputStates : s.IndexTrigger[LEFT] = s.IndexTrigger[RIGHT] }

\* A render late in a round: as SceneTick, the triggers moving together.
LateTick ==
    /\ renders < MaxRenders
    /\ SceneRender(HandPoseSet, BOOLEAN, PairedStates, ClockSteps)
    /\ UNCHANGED pipeVars
    /\ UNCHANGED mainVars

NextLate == LateTick

SpecLate == InitLate /\ [][NextLate]_vars

\* ------------------------------------ the scene close to a loss, lasers off
\* Input states with both triggers at rest: only the buttons vary.
ButtonStates == { s \in InputStates : \A h \in {LEFT, RIGHT} : s.IndexTrigger[h] = 50 }

\* A render late in a round with the lasers green.
BurstTick ==
    /\ renders < MaxRenders
    /\ SceneRender(FrameHandSet, {TRUE}, ButtonStates, ClockSteps)
    /\ UNCHANGED pipeVars
    /\ UNCHANGED mainVars

NextBurst == BurstTick

SpecBurst == InitLate /\ [][NextBurst]_vars

\* ------------------------------------------- the particle move on its own
\* Translations and velocities handed to the particle move: on, just inside
\* and just outside each wall, and the pair x = 10.5, velocity.x = +0.02.
ProbePositions ==
    { << 1050, -100, -1500 >>, << 999, -100, -1500 >>, << 1000, -100, -1500 >>,
      << -1000, -100, -1500 >>, << -1001, -100, -1500 >>, << 0, 999, -1500 >>,
      << 0, -1000, -1500 >>, << 0, -100, -501 >>, << 0, -100, -2500 >>,
      << 1000, 1000, -500 >>, << -1000, -1000, -2500 >> }
ProbeVelocities == { << 2, 0, 0 >>, << 1, 1, 1 >>, << -1, -1, -1 >> }

\* The scene with its first particle at a probe translation and velocity.
InitBounce ==
    /\ InitPipeline
    /\ renderTargetSize = << 2, 1 >>
    /\ chainLength = 1
    /\ InitSceneRest
    /\ inputstate = [IndexTrigger |-> [h \in {LEFT, RIGHT} |-> 50], Buttons |-> 0]
    /\ \E pos \in ProbePositions, v \in ProbeVelocities, vs \in InitVelocities :
          particles = [FreshParticles(vs) EXCEPT ![1] = [@ EXCEPT !.pos = pos, !.velocity = v]]

\* A render with the controllers idle and the clock standing.
SceneIdleTick ==
    /\ renders < MaxRenders
    /\ SceneRender(FrameHandSet, {TRUE}, FrameStates, FrameClockSteps)
    /\ UNCHANGED pipeVars
    /\ UNCHANGED mainVars

NextBounce == SceneIdleTick

SpecBounce == InitBounce /\ [][NextBounce]_vars

\* --------------------------------------- the scene with the triggers in play
\* Renders explored with only the triggers and the clock varying: two frames
\* of two eyes when MaxRenders is 3.
HapticRenders == MaxRenders + 1
\* Input states with no button down.
TriggerStates == { s \in InputStates : s.Buttons = 0 }
\* Clock advances that stay inside the cooldown.
HapticClockSteps == { 0, 1 }

\* A render with both beams through the chimney mouth.
HapticTick ==
    /\ renders < HapticRenders
    /\ SceneRender(FrameHandSet, {TRUE}, TriggerStates, HapticClockSteps)
    /\ UNCHANGED pipeVars
    /\ UNCHANGED mainVars

NextHaptic == HapticTick

InitHaptic ==
    /\ InitSceneOnly
    /\ inputstate = [IndexTrigger |-> [h \in {LEFT, RIGHT} |-> 50], Buttons |-> 0]

SpecHaptic == InitHaptic /\ [][NextHaptic]_vars

Next ==
    \/ BeginFrame
    \/ PredictPose
    \/ AcquireSlot
    \/ BindTarget
    \/ RenderEye
    \/ Commit
    \/ Submit
    \/ MirrorBlit
    \/ FinishFrame
    \/ LoopThrows
    \/ Shutdown

Spec == Init /\ [][Next]_vars

\* ---------------------------------------------------------------- WinMain
\* What the catch block of WinMain prints for each call that can fail.
FailureReason(api) ==
    CASE api = "ovr_Initialize" -> "Failed to initialize the Oculus SDK"
      [] api = "glfwInit" -> "Failed to initialize GLFW"
      [] api = "ovr_Create" -> "Unable to create HMD session"
      [] api = "glfwCreateWindow" -> "Unable to create rendering window"
      [] api = "glewInit" -> "Failed to initialize GLEW"
      [] api = "ovr_CreateTextureSwapChainGL" -> "Failed to create swap textures"
      [] api = "ovr_GetTextureSwapChainLength" -> "Unable to count swap chain textures"
      [] api = "ovr_CreateMirrorTextureGL" -> "Could not create mirror texture"
      [] OTHER -> ""

\* The constructors going on after a failed ovr_Create.
CtorFailure_SessionUnchecked(glfwOk, sessOk) == IF ~glfwOk THEN "glfwInit" ELSE "none"

\* The base-class constructors of ExampleApp in order, GlfwApp then
\* RiftManagerApp: the call whose failure is thrown, or "none".
CtorFailure(glfwOk, sessOk) ==
    IF ~glfwOk THEN "glfwInit" ELSE IF ~sessOk THEN "ovr_Create" ELSE "none"

\* initGl without the check of the mirror texture's creation.
InitGlFailure_MirrorUnchecked(chainOk, lenOk, len, mirrorOk) ==
    IF ~chainOk THEN "ovr_CreateTextureSwapChainGL"
    ELSE IF ~lenOk \/ len = 0 THEN "ovr_GetTextureSwapChainLength"
    ELSE "none"

\* RiftApp::initGl: the call whose failure is thrown, or "none".
InitGlFailure(chainOk, lenOk, len, mirrorOk) ==
    IF ~chainOk THEN "ovr_CreateTextureSwapChainGL"
    ELSE IF ~lenOk \/ len = 0 THEN "ovr_GetTextureSwapChainLength"
    ELSE IF ~mirrorOk THEN "ovr_CreateMirrorTextureGL"
    ELSE "none"

\* FAIL(...) unwinding to the catch block of WinMain, which prints what() and
\* falls through to ovr_Shutdown and return result, still -1.
Caught(api) ==
    /\ console' = Append(console, FailureReason(api))
    /\ pc' = "failed"
    /\ teardown' = Teardown(session)
    /\ UNCHANGED exitCode

\* The process at the entry of WinMain: nothing constructed yet.
InitMain ==
    /\ pc = "main"
    /\ frame = 0
    /\ shouldClose = FALSE
    /\ renderTargetSize = << 0, 0 >>
    /\ sceneLayer = [Viewport |-> [e \in Eyes |-> [Pos |-> << 0, 0 >>, Size |-> << 0, 0 >>]],
                     RenderPose |-> [e \in Eyes |-> ZeroPose]]
    /\ eyePoses = [e \in Eyes |-> ZeroPose]
    /\ eye = LEFT
    /\ chainLength = 0
    /\ chainIndex = 0
    /\ curIndex = -1
    /\ fboColor = -1
    /\ glViewport = [Pos |-> << 0, 0 >>, Size |-> << 0, 0 >>]
    /\ submitted = TRUE
    /\ log = << >>
    /\ rendered = << >>
    /\ particles = << >>
    /\ leftLaser = [model |-> "greenLaser", transform |-> [tr |-> << 0, 0, 0 >>, zaxis |-> << 0, 0, 1 >>]]
    /\ rightLaser = [model |-> "greenLaser", transform |-> [tr |-> << 0, 0, 0 >>, zaxis |-> << 0, 0, 1 >>]]
    /\ co2Count = 0
    /\ win = FALSE
    /\ lose = FALSE
    /\ now = 0
    /\ timer = 0
    /\ vibTimer = 0
    /\ handPoses = [h \in {LEFT, RIGHT} |-> ZeroPose]
    /\ inputstate = [IndexTrigger |-> [h \in {LEFT, RIGHT} |-> 50], Buttons |-> 0]
    /\ fingerTriggerPressed = [h \in {LEFT, RIGHT} |-> FALSE]
    /\ vibration = [h \in {LEFT, RIGHT} |-> 0]
    /\ clearColor = "none"
    /\ converted = {}
    /\ did = NothingDone(0)
    /\ renders = 0
    /\ samples = 0
    /\ updates = 0
    /\ console = << >>
    /\ exitCode = -1
    /\ window = FALSE
    /\ session = FALSE
    /\ calls = {}
    /\ apiFailed = {}
    /\ teardown = << >>

startupKept == << frame, shouldClose, eyePoses, eye, chainIndex, curIndex, fboColor,
                 glViewport, submitted, log, rendered >>

\* ovr_Initialize(nullptr) at the head of the try block.
SdkInitialize ==
    /\ pc = "main"
    /\ \E ok \in BOOLEAN :
          IF ok
          THEN /\ pc' = "construct"
               /\ UNCHANGED << console, exitCode, apiFailed, teardown >>
          ELSE /\ apiFailed' = { "ovr_Initialize" }
               /\ Caught("ovr_Initialize")
    /\ UNCHANGED << startupKept, renderTargetSize, sceneLayer, chainLength >>
    /\ UNCHANGED sceneVars
    /\ UNCHANGED << window, session, calls >>

\* ExampleApp(): GlfwApp(), RiftManagerApp(), then the body of RiftApp(),
\* which lays the eyes out from the sizes the runtime recommends.
ConstructApp ==
    /\ pc = "construct"
    /\ \E glfwOk \in BOOLEAN, sessOk \in BOOLEAN :
       \E sizes \in [Eyes -> (1 .. MaxEyeDim) \X (1 .. MaxEyeDim)] :
          /\ apiFailed' = IF ~glfwOk THEN { "glfwInit" }
                          ELSE IF ~sessOk THEN { "ovr_Create" } ELSE {}
          /\ IF CtorFailure(glfwOk, sessOk) # "none"
             THEN /\ Caught(CtorFailure(glfwOk, sessOk))
                  /\ UNCHANGED << renderTargetSize, sceneLayer, session, calls >>
             ELSE /\ session' = sessOk
                  /\ calls' = calls \cup CtorCalls
                  /\ renderTargetSize' = Layout(sizes).size
                  /\ sceneLayer' = [sceneLayer EXCEPT !.Viewport = Layout(sizes).Viewport]
                  /\ pc' = "create"
                  /\ UNCHANGED << console, exitCode, teardown >>
    /\ UNCHANGED << startupKept, chainLength, window >>
    /\ UNCHANGED sceneVars

\* run: preCreate and createRenderingTarget, that is glfw::createWindow.
CreateWindow ==
    /\ pc = "create"
    /\ \E ok \in BOOLEAN :
          IF ok
          THEN /\ window' = TRUE
               /\ pc' = "postcreate"
               /\ UNCHANGED << console, exitCode, apiFailed, teardown >>
          ELSE /\ apiFailed' = { "glfwCreateWindow" }
               /\ Caught("glfwCreateWindow")
               /\ UNCHANGED window
    /\ UNCHANGED << startupKept, renderTargetSize, sceneLayer, chainLength >>
    /\ UNCHANGED sceneVars
    /\ UNCHANGED << session, calls >>

\* run: postCreate, which initialises GLEW.
PostCreate ==
    /\ pc = "postcreate"
    /\ \E ok \in BOOLEAN :
          IF ok
          THEN /\ pc' = "initgl"
               /\ UNCHANGED << console, exitCode, apiFailed, teardown >>
          ELSE /\ apiFailed' = { "glewInit" }
               /\ Caught("glewInit")
    /\ UNCHANGED << startupKept, renderTargetSize, sceneLayer, chainLength >>
    /\ UNCHANGED sceneVars
    /\ UNCHANGED << window, session, calls >>

\* The members of ColorCubeScene as its constructor leaves them.
SceneConstructed ==
    /\ \E vs \in InitVelocities : particles' = FreshParticles(vs)
    /\ co2Count' = StartParticles
    /\ vibTimer' \in UninitClock
    /\ inputstate' \in InputStates
    /\ clearColor' = "dark"
    /\ did' = NothingDone(StartParticles)
    /\ UNCHANGED << leftLaser, rightLaser, win, lose, timer, handPoses, fingerTriggerPressed,
                    now, vibration, converted, renders, samples, updates >>

\* run: ExampleApp::initGl, that is RiftApp::initGl (swap chain, its length,
\* the framebuffer, the mirror texture) and then the scene's construction.
InitGl ==
    /\ pc = "initgl"
    /\ \E chainOk \in BOOLEAN, lenOk \in BOOLEAN, mirrorOk \in BOOLEAN,
          len \in 0 .. MaxChainLength :
          /\ apiFailed' = IF ~chainOk THEN { "ovr_CreateTextureSwapChainGL" }
                          ELSE IF ~lenOk THEN { "ovr_GetTextureSwapChainLength" }
                          ELSE IF len = 0 THEN { "ovr_GetTextureSwapChainLength" }
                          ELSE IF ~mirrorOk THEN { "ovr_CreateMirrorTextureGL" }
                          ELSE {}
          /\ calls' = calls \cup
                 (IF ~chainOk THEN { "ovr_CreateTextureSwapChainGL" }
                  ELSE IF ~lenOk \/ len = 0
                       THEN { "ovr_CreateTextureSwapChainGL", "ovr_GetTextureSwapChainLength" }
                  ELSE IF ~mirrorOk
                       THEN InitGlCalls \ { "ovr_RecenterTrackingOrigin" }
                  ELSE InitGlCalls)
          /\ IF InitGlFailure(chainOk, lenOk, len, mirrorOk) # "none"
             THEN /\ Caught(InitGlFailure(chainOk, lenOk, len, mirrorOk))
                  /\ UNCHANGED chainLength
                  /\ UNCHANGED sceneVars
             ELSE /\ chainLength' = len
                  /\ SceneConstructed
                  /\ pc' = "loop"
                  /\ UNCHANGED << console, exitCode, teardown >>
    /\ UNCHANGED << startupKept, renderTargetSize, sceneLayer >>
    /\ UNCHANGED << window, session >>

NextStartup ==
    \/ SdkInitialize
    \/ ConstructApp
    \/ CreateWindow
    \/ PostCreate
    \/ InitGl
    \/ Next

SpecStartup == InitMain /\ [][NextStartup]_vars

\* ================================================================ claims
FrameSteps ==
    << "PredictPose", "BindTarget", "RenderEyeLeft", "RenderEyeRight", "Commit", "Submit",
       "MirrorBlit", "SwapPresent" >>

IsFrameStep(s) == s # "AcquireSlot"

\* The steps of the current frame, the slot acquisition counted with the bind.
StepsDone == SelectSeq(log, IsFrameStep)

FrameEnded == pc \in {"loop", "done"} /\ frame > 0

\* C1: at every moment the steps a frame has executed are an initial part of
\* predict, bind, left eye, right eye, commit, submit, mirror blit, swap, and
\* when the iteration ends they are exactly that sequence.
C1_FrameOrder ==
    /\ Len(StepsDone) <= Len(FrameSteps)
    /\ StepsDone = SubSeq(FrameSteps, 1, Len(StepsDone))
    /\ FrameEnded => StepsDone = FrameSteps

C1_Witness == pc = "loop" /\ frame = 2 /\ StepsDone = FrameSteps

InRect(x, y, vp) ==
    /\ vp.Pos[1] <= x /\ x < vp.Pos[1] + vp.Size[1]
    /\ vp.Pos[2] <= y /\ y < vp.Pos[2] + vp.Size[2]

TargetPixels == (0 .. renderTargetSize[1] - 1) \X (0 .. renderTargetSize[2] - 1)

\* Both eyes rendered, left then right, each into its own viewport of the layer.
TwoEyesRendered ==
    /\ Len(rendered) = 2
    /\ rendered[1].eye = LEFT /\ rendered[2].eye = RIGHT
    /\ \A i \in 1 .. 2 : rendered[i].viewport = sceneLayer.Viewport[rendered[i].eye]

NoOverlap ==
    \A x \in 0 .. renderTargetSize[1], y \in 0 .. renderTargetSize[2] :
        ~(InRect(x, y, sceneLayer.Viewport[LEFT]) /\ InRect(x, y, sceneLayer.Viewport[RIGHT]))

UnionIsTarget ==
    \A px \in TargetPixels :
        \/ InRect(px[1], px[2], sceneLayer.Viewport[LEFT])
        \/ InRect(px[1], px[2], sceneLayer.Viewport[RIGHT])

\* C2 as stated: in every frame both eyes are rendered, left then right, into
\* viewports that do not overlap and whose union is the whole render target,
\* whatever sizes the runtime recommends.
C2_UnionIsWholeTarget ==
    FrameEnded => TwoEyesRendered /\ NoOverlap /\ UnionIsTarget

\* C2 amended: both eyes are rendered, left then right, into viewports that do
\* not overlap, lie side by side from the left edge inside the render target,
\* whose width is the sum of the eye widths and whose height is the larger eye
\* height; their union is the whole target exactly when the eye heights agree.
C2_ViewportsSideBySide ==
    LET l == sceneLayer.Viewport[LEFT]
        r == sceneLayer.Viewport[RIGHT]
    IN  /\ FrameEnded => TwoEyesRendered
        /\ NoOverlap
        /\ l.Pos = << 0, 0 >>
        /\ r.Pos = << l.Size[1], 0 >>
        /\ renderTargetSize[1] = l.Size[1] + r.Size[1]
        /\ renderTargetSize[2] >= l.Size[2] /\ renderTargetSize[2] >= r.Size[2]
        /\ renderTargetSize[2] \in { l.Size[2], r.Size[2] }
        /\ UnionIsTarget <=> (l.Size[2] = r.Size[2])

C2_Witness ==
    /\ pc = "loop" /\ frame > 0 /\ Len(rendered) = 2
    /\ sceneLayer.Viewport[LEFT].Size[2] # sceneLayer.Viewport[RIGHT].Size[2]

Before(i, name) == \E j \in 1 .. i - 1 : log[j] = name

\* C3: the colour texture is attached, and the eyes are rendered, only after
\* the frame has acquired the current slot and before it commits the swap
\* chain, and what is attached and drawn into is the acquired slot.
C3_DrawInsideWindow ==
    /\ \A i \in 1 .. Len(log) :
          log[i] \in {"BindTarget", "RenderEyeLeft", "RenderEyeRight"}
              => Before(i, "AcquireSlot") /\ ~Before(i, "Commit")
    /\ fboColor # -1 => fboColor = curIndex /\ fboColor = chainIndex
    /\ \A i \in 1 .. Len(rendered) :
          /\ rendered[i].target # -1
          /\ curIndex # -1 => rendered[i].target = curIndex

C3_Witness ==
    pc = "commit" /\ Len(rendered) = 2 /\ fboColor = 1 /\ curIndex = 1

Compose(a, b) == [rot |-> (a.rot + b.rot) % 4, tr |-> Add(Rot(a.rot, b.tr), a.tr)]
IdentityMat == [rot |-> 0, tr |-> << 0, 0, 0 >>]

\* C4: for each eye rendered in the frame, the view matrix its render callback
\* got is the inverse of the pose the layer records for that same eye.
C4_PoseRoundTrip ==
    \A i \in 1 .. Len(rendered) :
        /\ pc \notin {"loop", "done"}
              => sceneLayer.RenderPose[rendered[i].eye] = eyePoses[rendered[i].eye]
        /\ Compose([rot |-> sceneLayer.RenderPose[rendered[i].eye].Orientation,
                    tr |-> sceneLayer.RenderPose[rendered[i].eye].Position],
                   rendered[i].view) = IdentityMat

C4_Witness ==
    /\ pc = "loop" /\ Len(rendered) = 2
    /\ sceneLayer.RenderPose[LEFT] # sceneLayer.RenderPose[RIGHT]
    /\ sceneLayer.RenderPose[RIGHT].Orientation = 1

\* C5: the simulation's update has run exactly once in every finished frame.
C5_UpdateOncePerFrame == FrameEnded => updates = 1

\* A finished frame in which update has run once for each eye.
C5_Witness == pc = "loop" /\ frame > 0 /\ Len(rendered) = ovrEye_Count /\ updates = 2

\* C6: the controllers have been sampled exactly once in every finished frame.
C6_SampleOncePerFrame == FrameEnded => samples = 1

\* A finished frame in which the controllers were sampled once for each eye.
C6_Witness == pc = "loop" /\ frame > 0 /\ Len(rendered) = ovrEye_Count /\ samples = 2

\* C7: between updates the counter is 0 with the game not Lost exactly when
\* the game is Won; an update that makes the game Won is one whose counter
\* ended at 0; and once Won the game stays Won, through every later update,
\* until an update resets it, so a round enters Won at most once.
C7_WinAtZeroOnce ==
    /\ [](co2Count = 0 /\ ~lose => win)
    /\ [](win => co2Count = 0 /\ ~lose)
    /\ [][~win /\ win' => did'.won /\ did'.count = 0 /\ ~did'.reset]_vars
    /\ [][win /\ ~win' => did'.reset /\ inputstate'.Buttons # 0
                            /\ co2Count' = StartParticles]_vars

\* The game Won in one update and still Won after a later update in which
\* nothing was converted.
C7_Witness ==
    win /\ ~lose /\ co2Count = 0 /\ renders = 3 /\ converted = {} /\ clearColor = "win"

\* C8: after an update that reached its reset check Won or Lost with a button
\* down, the game is Playing with exactly five particles, all CO2, counter 5.
C8_ResetToFreshRound ==
    (did.win \/ did.lose) /\ inputstate.Buttons # 0
        => /\ ~win /\ ~lose
           /\ Len(particles) = 5
           /\ \A i \in 1 .. Len(particles) : particles[i].model = "co2"
           /\ co2Count = 5

\* A reset out of Lost, where the burst had left more than a hundred particles.
C8_Witness ==
    /\ did.lose /\ ~did.loss /\ did.reset /\ inputstate.Buttons # 0
    /\ ~lose /\ Len(particles) = 5 /\ co2Count = 5

\* The squared distance of a point from the line of a laser, compared with the
\* squared threshold, both scaled by the squared length of the direction.
WithinBeam(laser, c) ==
    LET d == laser.transform.zaxis
        x == Cross(d, Sub(c, laser.transform.tr))
    IN  LenSq(x) <= 30 * 30 * LenSq(d)

\* During the particle loop of the step: both lasers red and the particle's
\* centre, after its move, within the threshold of both beams.
BothBeamsOn(i) ==
    LET c == Add(particles[i].pos, particles[i].velocity)
    IN  /\ leftLaser.model = "redLaser"
        /\ rightLaser.model = "redLaser"
        /\ WithinBeam(leftLaser', c)
        /\ WithinBeam(rightLaser', c)

\* C9: in every update, a CO2 particle under both red beams is converted (it
\* is O2 afterwards); a particle that is already O2 is not converted again and
\* stays O2, beams or not; and the counter goes down by exactly one for each
\* particle converted (and up by one if the same update spawned a particle).
C9_ConvertOnce ==
    [][/\ \A i \in 1 .. Len(particles) :
             /\ particles[i].model = "co2" /\ BothBeamsOn(i)
                   => i \in converted' /\ (~did'.reset => particles'[i].model = "o2")
             /\ particles[i].model = "o2"
                   => i \notin converted' /\ (~did'.reset => particles'[i].model = "o2")
       /\ did'.count = co2Count - Cardinality(converted')
                          + (IF did'.spawn THEN 1 ELSE 0)
       /\ ~did'.reset => co2Count' = did'.count]_vars

\* An update that converted some particle while both red beams also lay on a
\* particle converted earlier.
C9_Witness ==
    /\ did.red /\ ~did.reset /\ ~did.spawn /\ converted # {}
    /\ co2Count = StartParticles - Cardinality({ i \in 1 .. Len(particles) :
                                                   particles[i].model = "o2" })
    /\ \E i \in 1 .. Len(particles) :
          /\ i \notin converted
          /\ particles[i].model = "o2"
          /\ WithinBeam(leftLaser, particles[i].pos)
          /\ WithinBeam(rightLaser, particles[i].pos)

\* C10: in every update, each particle converted was CO2 with both lasers red
\* and both beams within the threshold, and a CO2 particle for which any of
\* these fails is still CO2 afterwards.
C10_NoPartialHit ==
    [][/\ \A i \in converted' :
             i \in 1 .. Len(particles) /\ particles[i].model = "co2" /\ BothBeamsOn(i)
       /\ \A i \in 1 .. Len(particles) :
             particles[i].model = "co2" /\ ~BothBeamsOn(i) /\ ~did'.reset
                 => particles'[i].model = "co2"]_vars

\* An update with both lasers red in which a CO2 particle lay under the left
\* beam only and stayed CO2.
C10_Witness ==
    /\ did.red /\ ~did.reset /\ ~did.spawn /\ ~did.loss
    /\ \E i \in 1 .. Len(particles) :
          /\ particles[i].model = "co2"
          /\ WithinBeam(leftLaser, particles[i].pos)
          /\ ~WithinBeam(rightLaser, particles[i].pos)

\* C11: in every update each particle's translation becomes translation plus
\* velocity, and then each velocity component is negated exactly when the new
\* translation is outside [-10, 10] (x), [-10, 10] (y), [-25, -5] (z) on that
\* axis, a translation on a bound counting as inside; the other components are
\* left as they were.
C11_MoveThenBounce ==
    [][\A i \in 1 .. Len(particles) :
          ~did'.reset =>
              LET v == particles[i].velocity
                  m == << particles[i].pos[1] + v[1], particles[i].pos[2] + v[2],
                          particles[i].pos[3] + v[3] >>
                  w == particles'[i].velocity
              IN  /\ particles'[i].pos = m
                  /\ w[1] = (IF m[1] >= -1000 /\ m[1] <= 1000 THEN v[1] ELSE -v[1])
                  /\ w[2] = (IF m[2] >= -1000 /\ m[2] <= 1000 THEN v[2] ELSE -v[2])
                  /\ w[3] = (IF m[3] >= -2500 /\ m[3] <= -500 THEN v[3] ELSE -v[3])]_vars

\* The particle that was at x = 10.5 with velocity.x = +0.02, one update later:
\* moved to 10.52, velocity.x negated, the other components unchanged.
C11_Witness ==
    /\ renders = 1
    /\ particles[1].pos = << 1052, -100, -1500 >>
    /\ particles[1].velocity = << -2, 0, 0 >>

\* The clock ticks between the last setting of the spawn timer and the
\* update of the step.
Elapsed == now' - timer

C13_TerminalUntilReset ==
    [][/\ win => \/ win' /\ ~lose'
                 \/ inputstate'.Buttons # 0 /\ ~win' /\ ~lose'
       /\ lose => \/ lose' /\ ~win'
                  \/ inputstate'.Buttons # 0 /\ ~win' /\ ~lose'
       /\ (win \/ lose) /\ inputstate'.Buttons = 0 => win' = win /\ lose' = lose]_vars

\* A Lost game after a later update with no button down in which the counter
\* came down to 0: still Lost, not Won.
C13_Witness ==
    /\ lose /\ ~win /\ ~did.loss /\ renders >= 2
    /\ inputstate.Buttons = 0 /\ co2Count = 0 /\ converted # {}

\* Both trigger latches as the update of the step finds them.
BothHeld == fingerTriggerPressed'[LEFT] /\ fingerTriggerPressed'[RIGHT]

\* More than 100 ms (one clock tick is 100 ms) between the last hit and the
\* update of the step.
CooldownOver == did.hits /\ 100 * (now' - vibTimer) > 100

\* C14: an update that finds a trigger latch released, or more than 100 ms
\* gone since the last hit, sends both controllers the zero vibration, and
\* unless that same update hits a particle the vibration is off after it.
C14_VibrationZeroed ==
    [][~BothHeld \/ CooldownOver
          => /\ did'.stop
             /\ converted' = {} => vibration' = [h \in {LEFT, RIGHT} |-> 0]]_vars

\* Vibration switched off by the cooldown alone: both triggers still held, an
\* earlier update hit, and this one came more than 100 ms later and hit nothing.
C14_Witness ==
    /\ did.hits /\ did.stop /\ converted = {}
    /\ fingerTriggerPressed[LEFT] /\ fingerTriggerPressed[RIGHT]
    /\ now - vibTimer > 1
    /\ vibration = [h \in {LEFT, RIGHT} |-> 0]

\* C15: in a frame (two consecutive renders, left eye then right) both of
\* whose updates ran with haptic feedback active, at least one of them sent
\* the nonzero vibration again.
C15_ReassertedEveryFrame ==
    [][renders % 2 = 1 /\ did.active /\ did'.active => did.buzz \/ did'.buzz]_vars

\* The end of the second frame, feedback active and the vibration left on by
\* the hit of the first frame, with no nonzero request sent in either update.
C15_Witness ==
    /\ renders = 4 /\ did.active /\ ~did.buzz /\ ~did.stop
    /\ vibration = [h \in {LEFT, RIGHT} |-> 1]

\* C16: after every sampling the latches have been assigned in that sampling,
\* and each hand's latch is (that hand's analog trigger value > 0.5).
C16_LatchRecomputed ==
    renders > 0 =>
        /\ did.sampled
        /\ \A h \in {LEFT, RIGHT} :
              fingerTriggerPressed[h] = (inputstate.IndexTrigger[h] > 50)

\* A sampling whose input-state query failed, after which the left latch is
\* still set from an earlier sampling.
C16_Witness ==
    renders >= 2 /\ ~did.sampled /\ fingerTriggerPressed[LEFT]

\* C17: once a frame's compositor submission has returned a failure, the
\* failure has been logged.
C17_SubmitFailureLogged ==
    pc \in {"mirror", "swap"} /\ ~submitted => console # << >>

\* The second frame begun after the first frame's submission failed, with
\* nothing written to the console.
C17_Witness ==
    pc = "predict" /\ frame = 2 /\ ~submitted /\ console = << >>

\* C18: once a startup call has reported failure the process is at its end
\* with no frame begun, no step of a frame executed and no eye rendered, with
\* the reason of that failure as the one line printed, and with a non-zero
\* result; and a frame is only ever begun with no startup call failed, the
\* window and the session created.
C18_StartupFailureFatal ==
    /\ apiFailed # {} =>
          /\ pc = "failed"
          /\ frame = 0 /\ log = << >> /\ rendered = << >> /\ renders = 0
          /\ Len(console) = 1 /\ console[1] # ""
          /\ \E api \in apiFailed : console[1] = FailureReason(api)
          /\ exitCode # 0
    /\ frame > 0 => apiFailed = {} /\ window /\ session

\* Startup failed at its last step, the creation of the mirror texture.
C18_Witness ==
    /\ pc = "failed" /\ apiFailed = { "ovr_CreateMirrorTextureGL" }
    /\ console = << "Could not create mirror texture" >>
    /\ exitCode = -1 /\ window /\ frame = 0

\* C19: if ovr_Initialize or ovr_Create has failed, the process is at its end
\* with no window created and no call taking the session made; and whenever a
\* window exists or such a call has been made, the session exists.
C19_NoSessionNoWindow ==
    /\ apiFailed \cap { "ovr_Initialize", "ovr_Create" } # {} =>
          pc = "failed" /\ ~window /\ ~session /\ calls = {}
    /\ window \/ calls # {} => session

\* No HMD session could be created: startup ended, no window, no session call.
C19_Witness ==
    /\ pc = "failed" /\ apiFailed = { "ovr_Create" }
    /\ console = << "Unable to create HMD session" >>
    /\ ~window /\ calls = {}

\* C21: an update of a game that is Won or Lost does not spawn on the timer
\* and does not raise the counter.
C21_NoSpawnWhenOver ==
    [][win \/ lose => ~did'.spawn /\ did'.count <= co2Count]_vars

\* An update of a game Lost in an earlier update, a second after the last
\* spawn, with no button down: it spawned a particle and the counter went up.
C21_Witness ==
    /\ lose /\ ~win /\ ~did.loss /\ did.spawn /\ ~did.reset
    /\ inputstate.Buttons = 0 /\ timer = now /\ co2Count = 12
    /\ Len(particles) = 112 /\ particles[112].pos = ChimneyPos

\* The update of the step is taken in Playing and its counter, after the
\* timed spawn, exceeds 10.
ExceedsInPlaying == ~win /\ ~lose /\ did'.count > 10

\* The particles the update of the step has after its timed spawn.
AfterSpawn == Len(particles) + (IF did'.spawn THEN 1 ELSE 0)

\* C22 as stated: an update taken in Playing whose counter exceeds 10 ends
\* Lost with exactly 100 particles more than its spawn left; the game becomes
\* Lost in no other update; and an update of a Lost game that stays Lost adds
\* no burst.
C22_LostOnExceed ==
    [][/\ ExceedsInPlaying => lose' /\ Len(particles') = AfterSpawn + 100
       /\ ~lose /\ lose' => ExceedsInPlaying
       /\ lose /\ lose' => Len(particles') = AfterSpawn]_vars

\* C22 amended: the loss case is taken exactly in an update of a Playing game
\* whose counter exceeds 10.  With no button down that update ends Lost, with
\* exactly 100 CO2 particles added after its spawn and the counter unchanged
\* by them; with a button down the same update goes on to reset, and ends
\* Playing with the five fresh particles.  The game becomes Lost in no other
\* update, and an update of a Lost game takes no loss case and adds no burst.
C22_LostUnlessReset ==
    [][/\ did'.loss <=> ExceedsInPlaying
       /\ ExceedsInPlaying /\ inputstate'.Buttons = 0
             => /\ lose' /\ ~win'
                /\ Len(particles') = AfterSpawn + 100
                /\ \A j \in AfterSpawn + 1 .. AfterSpawn + 100 : particles'[j].model = "co2"
                /\ co2Count' = did'.count
       /\ ExceedsInPlaying /\ inputstate'.Buttons # 0
             => ~lose' /\ ~win' /\ Len(particles') = 5 /\ co2Count' = 5
       /\ ~lose /\ lose' => ExceedsInPlaying
       /\ lose => ~did'.loss /\ (lose' => Len(particles') = AfterSpawn)]_vars

\* A game Lost in the first update, after a second update with the counter
\* still above 10: still Lost, and still the 111 particles of the first.
C22_Witness ==
    /\ lose /\ did.lose /\ ~did.loss /\ ~did.spawn /\ renders = 2
    /\ co2Count = 11 /\ Len(particles) = 111

\* The particles of the set whose model is the CO2 one.
CO2Particles == { i \in 1 .. Len(particles) : particles[i].model = "co2" }

\* C23: between updates the counter is the number of CO2 particles in the
\* particle set, and so is never negative.
C23_CounterIsCO2Count ==
    co2Count = Cardinality(CO2Particles) /\ co2Count >= 0

\* A Lost game: the burst has put 111 CO2 particles in the set and the
\* counter stands at 11.
C23_Witness ==
    lose /\ did.loss /\ co2Count = 11 /\ Cardinality(CO2Particles) = 111

\* C24: between updates the flags win and lose are never both set.
C24_NotWonAndLost == ~(win /\ lose)

\* A Lost game whose counter an update has just brought to 0, the value at
\* which a game not Lost is Won: Lost only.
C24_Witness ==
    lose /\ ~win /\ did.lose /\ ~did.won /\ did.count = 0 /\ clearColor = "dark"

\* C25: once both eyes of a frame are rendered, the two render calls have
\* drawn the same particles (count, models, translations) and laser models.
C25_SameSceneBothEyes ==
    Len(rendered) = ovrEye_Count => rendered[1].scene = rendered[2].scene

\* The end of a frame whose right eye drew every particle one update further
\* on than its left eye did.
C25_Witness ==
    /\ pc = "loop" /\ Len(rendered) = ovrEye_Count
    /\ Len(rendered[2].scene.particles) = Len(rendered[1].scene.particles)
    /\ \A i \in 1 .. Len(rendered[1].scene.particles) :
          rendered[2].scene.particles[i].pos # rendered[1].scene.particles[i].pos
    /\ rendered[2].scene.particles[1].pos[1] = rendered[1].scene.particles[1].pos[1] + 1

Abs(x) == IF x < 0 THEN -x ELSE x

\* The translation lies in [-10, 10] x [-10, 10] x [-25, -5].
InsideBox(pos) ==
    /\ -1000 <= pos[1] /\ pos[1] <= 1000
    /\ -1000 <= pos[2] /\ pos[2] <= 1000
    /\ -2500 <= pos[3] /\ pos[3] <= -500

\* The translation lies in the box enlarged on each axis by the magnitude of
\* the particle's velocity component.
InsideEnlargedBox(p) ==
    /\ -1000 - Abs(p.velocity[1]) <= p.pos[1] /\ p.pos[1] <= 1000 + Abs(p.velocity[1])
    /\ -1000 - Abs(p.velocity[2]) <= p.pos[2] /\ p.pos[2] <= 1000 + Abs(p.velocity[2])
    /\ -2500 - Abs(p.velocity[3]) <= p.pos[3] /\ p.pos[3] <= -500 + Abs(p.velocity[3])

\* C26: between updates every particle lies in the enlarged box, and a
\* particle outside the box itself is inside it again after the next update.
C26_StaysInBox ==
    /\ [](\A i \in 1 .. Len(particles) : InsideEnlargedBox(particles[i]))
    /\ [][\A i \in 1 .. Len(particles) :
             ~InsideBox(particles[i].pos) /\ ~did'.reset
                 => InsideBox(particles'[i].pos)]_vars

\* A particle of the loss burst created on the wall x = -10 and heading out:
\* two updates later it is back on the wall, heading in.
C26_Witness ==
    /\ lose /\ renders = 3
    /\ \E i \in StartParticles + 1 .. Len(particles) :
          particles[i].pos[1] = -1000 /\ particles[i].velocity = << 1, 0, 0 >>

\* How often a call occurs among the teardown calls made so far.
TimesCalled(name) == Cardinality({ i \in 1 .. Len(teardown) : teardown[i] = name })

\* C27: no call ending the session or the runtime is made before the process
\* has left run, with a frame in progress or not; and once the process is at
\* its end, by a normal close, a failed startup call or an exception thrown
\* in the loop, ovr_Shutdown has been called exactly once, as the last call,
\* and ovr_Destroy exactly once if the session was created and never if not.
C27_TeardownOnce ==
    /\ pc \notin {"done", "failed"} => teardown = << >>
    /\ pc \in {"done", "failed"} =>
          /\ TimesCalled("ovr_Shutdown") = 1
          /\ teardown[Len(teardown)] = "ovr_Shutdown"
          /\ TimesCalled("ovr_Destroy") = (IF session THEN 1 ELSE 0)
          /\ Len(teardown) = TimesCalled("ovr_Shutdown") + TimesCalled("ovr_Destroy")

\* An exception thrown while the right eye of the first frame was due: the
\* session destroyed, then the runtime shut down, the result still -1.
C27_Witness ==
    /\ pc = "failed" /\ frame = 1 /\ Len(rendered) = 1 /\ apiFailed = {}
    /\ console = << "bad allocation" >> /\ exitCode = -1
    /\ teardown = << "ovr_Destroy", "ovr_Shutdown" >>

====
